---- MODULE Spec2Model ----
(***************************************************************************)
(* Model of src/main.py: a FastAPI application with three endpoints        *)
(*   POST /users/                          create_user                     *)
(*   POST /records/                        create_record                   *)
(*   GET  /users/{user_id}/similar_records/ find_similar_records           *)
(* over a relational store (tables of users and records) reached through a *)
(* per-request session obtained from the get_db dependency.                *)
(*                                                                         *)
(* crud, models, schemas, database and ml.text_search are imported by      *)
(* main.py; the few operators that stand for what they do follow the       *)
(* written specification of the system and say so in their comments.       *)
(***************************************************************************)
EXTENDS Integers, Sequences, FiniteSets, TLC

\* ---------------------------------------------------------------- bounds
MaxUsers == 2
MaxRecords == 3

\* Request workers.  Requests are served one at a time by one worker; every
\* definition below is written for a set of workers, and the properties
\* also hold with Workers == {"w1", "w2"} serving requests concurrently.
Workers == {"w1"}

\* Embedding vectors a client may post: a zero vector and two non-zero
\* vectors of dimension 2, and a vector of dimension 3.
Embeddings == {<<0, 0>>, <<1, 0>>, <<1, 1>>, <<1, 2, 3>>}

\* user_id values a client may send; MaxUsers + 1 is never a stored user.
UserIds == 1..(MaxUsers + 1)

NoResponse == [status |-> 0, body |-> << >>]
NoRecord == [user_id |-> 0, embedding |-> << >>]
NoModel == [id |-> 0, corpus |-> << >>, trained |-> FALSE]

VARIABLES
    db_users,      \* users table: set of user ids
    db_records,    \* records table, in insertion order: [user_id, embedding]
    pc,            \* per worker: position in the request it is serving
    op,            \* per worker: the endpoint being served
    user_id,       \* per worker: the user_id of the request
    record,        \* per worker: the RecordCreate body of create_record
    session,       \* per worker: state of the session yielded by get_db
    closes,        \* per worker: number of db.close() calls of the request
    records,       \* find_similar_records: local `records`
    embeddings,    \* find_similar_records: local `embeddings`
    search_model,  \* find_similar_records: local `search_model`
    i,             \* find_similar_records: outer loop index
    j,             \* find_similar_records: inner loop index
    similarities,  \* find_similar_records: local `similarities`
    cosCalls,      \* find_similar_records: cosine_similarity calls made
    resp           \* per worker: the response of the request

vars == <<db_users, db_records, pc, op, user_id, record, session, closes,
          records, embeddings, search_model, i, j, similarities, cosCalls,
          resp>>

db == <<db_users, db_records>>
locals == <<records, embeddings, search_model, i, j, similarities, cosCalls>>
request == <<op, user_id, record>>

\* ------------------------------------------------------- pure helpers
RECURSIVE Dot(_, _)
\* sum of a_k * b_k over the common dimension
Dot(a, b) ==
    IF a = << >> \/ b = << >> THEN 0
    ELSE Head(a) * Head(b) + Dot(Tail(a), Tail(b))

\* cosine_similarity(a, b) = dot(a, b) / (|a| * |b|).  The quotient is kept
\* exact as the pair (dot, |a|^2 * |b|^2), standing for dot / sqrt(nn).
\* Outcomes: a dimension mismatch fails with DimensionMismatchError; with a
\* zero norm the result is undefined and may be 0.0, NaN or a failure.
cosine_similarity(a, b) ==
    IF Len(a) # Len(b)
    THEN {[kind |-> "raise", error |-> "DimensionMismatchError"]}
    ELSE IF Dot(a, a) * Dot(b, b) = 0
    THEN {[kind |-> "score", dot |-> 0, nn |-> 1],
          [kind |-> "nan"],
          [kind |-> "raise", error |-> "InvalidVectorError"]}
    ELSE {[kind |-> "score", dot |-> Dot(a, b), nn |-> Dot(a, a) * Dot(b, b)]}

\* crud.get_user(db, user_id): the stored user, or None
get_user(uid) == IF uid \in db_users THEN uid ELSE 0

\* db.query(models.Record).filter(models.Record.user_id == user_id).all()
QueryRecordsAll(uid) == db_records
QueryRecords(uid) ==
    LET Owned(rec) == rec.user_id = uid
    IN SelectSeq(db_records, Owned)

\* [record.embedding for record in records]
EmbeddingsOf(recs) == [k \in 1..Len(recs) |-> recs[k].embedding]

\* TextSearch(): a new, unprepared instance distinct from every live one
TextSearch(w) ==
    [id |-> CHOOSE n \in 1..Cardinality(Workers) :
                \A v \in Workers : search_model[v].id # n,
     corpus |-> << >>, trained |-> FALSE]

\* range(i + 1, len(embeddings)): first and one-past-last value of j
InnerStartSame(ii) == ii
InnerStart(ii) == ii + 1
InnerStopShort(w) == Len(embeddings[w]) - 1
InnerStop(w) == Len(embeddings[w])

\* similarities.append((i, j, sim))
Prepended(s, t) == <<t>> \o s
Appended(s, t) == Append(s, t)

\* ------------------------------------------------------------- Init
Init ==
    /\ db_users = {}
    /\ db_records = << >>
    /\ pc = [w \in Workers |-> "idle"]
    /\ op = [w \in Workers |-> "none"]
    /\ user_id = [w \in Workers |-> 0]
    /\ record = [w \in Workers |-> NoRecord]
    /\ session = [w \in Workers |-> "none"]
    /\ closes = [w \in Workers |-> 0]
    /\ records = [w \in Workers |-> << >>]
    /\ embeddings = [w \in Workers |-> << >>]
    /\ search_model = [w \in Workers |-> NoModel]
    /\ i = [w \in Workers |-> 0]
    /\ j = [w \in Workers |-> 0]
    /\ similarities = [w \in Workers |-> << >>]
    /\ cosCalls = [w \in Workers |-> 0]
    /\ resp = [w \in Workers |-> NoResponse]

\* Number of requests in flight that are about to insert a row.
Pending(p) == Cardinality({v \in Workers : pc[v] = p})

\* A worker takes a request: FastAPI resolves Depends(get_db), which opens
\* a new session (db = SessionLocal(); yield db), and enters the handler.
\* The locals of the worker's previous request are gone.
BeginRequest(w, o, uid, rec) ==
    /\ pc[w] \in {"idle", "done"}
    /\ o = "create_user" => Cardinality(db_users) + Pending("create_user") < MaxUsers
    /\ o = "create_record" => Len(db_records) + Pending("create_record") < MaxRecords
    /\ op' = [op EXCEPT ![w] = o]
    /\ user_id' = [user_id EXCEPT ![w] = uid]
    /\ record' = [record EXCEPT ![w] = rec]
    /\ session' = [session EXCEPT ![w] = "open"]
    /\ closes' = [closes EXCEPT ![w] = 0]
    /\ records' = [records EXCEPT ![w] = << >>]
    /\ embeddings' = [embeddings EXCEPT ![w] = << >>]
    /\ search_model' = [search_model EXCEPT ![w] = NoModel]
    /\ i' = [i EXCEPT ![w] = 0]
    /\ j' = [j EXCEPT ![w] = 0]
    /\ similarities' = [similarities EXCEPT ![w] = << >>]
    /\ cosCalls' = [cosCalls EXCEPT ![w] = 0]
    /\ resp' = [resp EXCEPT ![w] = NoResponse]
    /\ pc' = [pc EXCEPT ![w] = IF o = "find" THEN "query" ELSE o]
    /\ UNCHANGED db

\* raise HTTPException(status_code, detail): the request is answered with
\* that status and detail, and no handler return value.
Raise(w, status, detail) ==
    /\ resp' = [resp EXCEPT ![w] = [status |-> status, body |-> detail]]
    /\ pc' = [pc EXCEPT ![w] = "finally"]

\* An exception of cosine_similarity is not caught in find_similar_records:
\* it leaves the handler and the request is answered 500.
PropagateSwallowed(w, error) ==
    /\ resp' = [resp EXCEPT ![w] = [status |-> 200, body |-> similarities[w]]]
    /\ pc' = [pc EXCEPT ![w] = "finally"]
Propagate(w, error) ==
    /\ resp' = [resp EXCEPT ![w] = [status |-> 500, body |-> error]]
    /\ pc' = [pc EXCEPT ![w] = "finally"]

\* The handler returns a value: the request is answered 200 with it.
Return(w, value) ==
    /\ resp' = [resp EXCEPT ![w] = [status |-> 200, body |-> value]]
    /\ pc' = [pc EXCEPT ![w] = "finally"]

\* create_user: crud.create_user stores a new user under the next id.
create_user(w) ==
    /\ pc[w] = "create_user"
    /\ LET new == Cardinality(db_users) + 1
       IN /\ db_users' = db_users \cup {new}
          /\ Return(w, new)
    /\ UNCHANGED <<db_records, request, session, closes, locals>>

\* create_record: 404 unless the user exists, else crud.create_record
\* stores the record under that user.
create_record_unchecked(w) ==
    /\ pc[w] = "create_record"
    /\ db_records' = Append(db_records,
            [user_id |-> record[w].user_id, embedding |-> record[w].embedding])
    /\ Return(w, record[w])
    /\ UNCHANGED <<db_users, request, session, closes, locals>>
create_record(w) ==
    /\ pc[w] = "create_record"
    /\ IF get_user(record[w].user_id) = 0
       THEN /\ Raise(w, 404, "User not found")
            /\ UNCHANGED db_records
       ELSE /\ db_records' = Append(db_records,
                    [user_id |-> record[w].user_id,
                     embedding |-> record[w].embedding])
            /\ Return(w, record[w])
    /\ UNCHANGED <<db_users, request, session, closes, locals>>

\* find_similar_records, line 32-33: load the user's records and take
\* their embeddings.
FindQuery(w) ==
    /\ pc[w] = "query"
    /\ records' = [records EXCEPT ![w] = QueryRecords(user_id[w])]
    /\ embeddings' = [embeddings EXCEPT ![w] =
                         EmbeddingsOf(QueryRecords(user_id[w]))]
    /\ pc' = [pc EXCEPT ![w] = "construct"]
    /\ UNCHANGED <<db, request, session, closes, search_model, i, j,
                   similarities, cosCalls, resp>>

\* line 34: search_model = TextSearch()
FindConstruct(w) ==
    /\ pc[w] = "construct"
    /\ search_model' = [search_model EXCEPT ![w] = TextSearch(w)]
    /\ pc' = [pc EXCEPT ![w] = "update_corpus"]
    /\ UNCHANGED <<db, request, session, closes, records, embeddings, i, j,
                   similarities, cosCalls, resp>>

\* line 35: search_model.update_corpus(records)
FindUpdateCorpus(w) ==
    /\ pc[w] = "update_corpus"
    /\ search_model' = [search_model EXCEPT ![w].corpus = records[w]]
    /\ pc' = [pc EXCEPT ![w] = "train_model"]
    /\ UNCHANGED <<db, request, session, closes, records, embeddings, i, j,
                   similarities, cosCalls, resp>>

\* line 36 and 38: search_model.train_model(); similarities = []
FindTrainSkipped(w) ==
    /\ pc[w] = "train_model"
    /\ similarities' = [similarities EXCEPT ![w] = << >>]
    /\ i' = [i EXCEPT ![w] = 0]
    /\ pc' = [pc EXCEPT ![w] = "outer"]
    /\ UNCHANGED <<db, request, session, closes, records, embeddings,
                   search_model, j, cosCalls, resp>>
FindTrainModel(w) ==
    /\ pc[w] = "train_model"
    /\ search_model' = [search_model EXCEPT ![w].trained = TRUE]
    /\ similarities' = [similarities EXCEPT ![w] = << >>]
    /\ i' = [i EXCEPT ![w] = 0]
    /\ pc' = [pc EXCEPT ![w] = "outer"]
    /\ UNCHANGED <<db, request, session, closes, records, embeddings, j,
                   cosCalls, resp>>

\* line 39-40: for i, embedding in enumerate(embeddings): take the next i
\* and start j at i + 1, or leave the loop.
FindOuter(w) ==
    /\ pc[w] = "outer"
    /\ IF i[w] < Len(embeddings[w])
       THEN /\ j' = [j EXCEPT ![w] = InnerStart(i[w])]
            /\ pc' = [pc EXCEPT ![w] = "inner"]
       ELSE /\ pc' = [pc EXCEPT ![w] = "return"]
            /\ UNCHANGED j
    /\ UNCHANGED <<db, request, session, closes, records, embeddings,
                   search_model, i, similarities, cosCalls, resp>>

\* line 40-42: one iteration of the inner loop: compute the similarity of
\* embeddings i and j and append the triple; an exception of
\* cosine_similarity leaves the handler.  When j is exhausted, next i.
FindInner(w) ==
    /\ pc[w] = "inner"
    /\ IF j[w] < InnerStop(w)
       THEN /\ cosCalls' = [cosCalls EXCEPT ![w] = @ + 1]
            /\ \E sim \in cosine_similarity(embeddings[w][i[w] + 1],
                                             embeddings[w][j[w] + 1]) :
                 IF sim.kind = "raise"
                 THEN /\ Propagate(w, sim.error)
                      /\ UNCHANGED <<i, j, similarities>>
                 ELSE /\ similarities' = [similarities EXCEPT ![w] =
                                Appended(@, <<i[w], j[w], sim>>)]
                      /\ j' = [j EXCEPT ![w] = @ + 1]
                      /\ UNCHANGED <<i, pc, resp>>
       ELSE /\ i' = [i EXCEPT ![w] = @ + 1]
            /\ pc' = [pc EXCEPT ![w] = "outer"]
            /\ UNCHANGED <<j, similarities, cosCalls, resp>>
    /\ UNCHANGED <<db, request, session, closes, records, embeddings,
                   search_model>>

\* line 43: return similarities
FindReturnPersist(w) ==
    /\ pc[w] = "return"
    /\ Return(w, similarities[w])
    /\ db_records' = Append(db_records,
            [user_id |-> user_id[w], embedding |-> << >>])
    /\ UNCHANGED <<db_users, request, session, closes, locals>>
FindReturn(w) ==
    /\ pc[w] = "return"
    /\ Return(w, similarities[w])
    /\ UNCHANGED <<db, request, session, closes, locals>>

\* get_db, line 15-16: finally: db.close().  Runs when the handler has
\* returned and when it has raised.
FinallyOnSuccessOnly(w) ==
    /\ pc[w] = "finally"
    /\ IF resp[w].status = 200
       THEN /\ session' = [session EXCEPT ![w] = "closed"]
            /\ closes' = [closes EXCEPT ![w] = @ + 1]
       ELSE UNCHANGED <<session, closes>>
    /\ pc' = [pc EXCEPT ![w] = "done"]
    /\ UNCHANGED <<db, request, locals, resp>>
Finally(w) ==
    /\ pc[w] = "finally"
    /\ session' = [session EXCEPT ![w] = "closed"]
    /\ closes' = [closes EXCEPT ![w] = @ + 1]
    /\ pc' = [pc EXCEPT ![w] = "done"]
    /\ UNCHANGED <<db, request, locals, resp>>

Next ==
    \E w \in Workers :
        \/ BeginRequest(w, "create_user", 0, NoRecord)
        \/ \E rec \in [user_id : UserIds, embedding : Embeddings] :
               BeginRequest(w, "create_record", rec.user_id, rec)
        \/ \E uid \in UserIds : BeginRequest(w, "find", uid, NoRecord)
        \/ create_user(w)
        \/ create_record(w)
        \/ FindQuery(w)
        \/ FindConstruct(w)
        \/ FindUpdateCorpus(w)
        \/ FindTrainModel(w)
        \/ FindOuter(w)
        \/ FindInner(w)
        \/ FindReturn(w)
        \/ Finally(w)

Spec == Init /\ [][Next]_vars

\* ------------------------------------------------------------ claims
\* A find_similar_records request that has been answered.
FindServed(w) == op[w] = "find" /\ pc[w] = "done"
\* ... and answered with a similarity list.
Returned(w) == FindServed(w) /\ resp[w].status = 200

PairCount(n) == (n * (n - 1)) \div 2

IsPrefix(s, t) ==
    /\ Len(s) <= Len(t)
    /\ \A k \in 1..Len(s) : s[k] = t[k]

\* C1: a returned similarity list over N loaded embeddings has exactly
\* N*(N-1)/2 triples and holds every unordered pair of distinct positions
\* exactly once (for N = 0 and N = 1 it is empty).
C1_PairCount ==
    \A w \in Workers :
        Returned(w) =>
            LET n == Len(embeddings[w])
                body == resp[w].body
            IN /\ Len(body) = PairCount(n)
               /\ \A a \in 0..(n - 1) : \A b \in 0..(n - 1) :
                     a < b =>
                       Cardinality({k \in 1..Len(body) :
                           {body[k][1], body[k][2]} = {a, b}}) = 1
               /\ \A k \in 1..Len(body) :
                     /\ body[k][1] # body[k][2]
                     /\ {body[k][1], body[k][2]} \subseteq 0..(n - 1)

C1_Witness ==
    \E w \in Workers :
        Returned(w) /\ Len(embeddings[w]) = 3 /\ Len(resp[w].body) = 3

\* C2: at every step of the pair loop and in the response, every triple
\* (i, j, score) of the similarity list has 0 <= i < j < N.
C2_IndexRange ==
    \A w \in Workers :
        /\ \A k \in 1..Len(similarities[w]) :
              /\ 0 <= similarities[w][k][1]
              /\ similarities[w][k][1] < similarities[w][k][2]
              /\ similarities[w][k][2] < Len(embeddings[w])
        /\ Returned(w) =>
              \A k \in 1..Len(resp[w].body) :
                  /\ 0 <= resp[w].body[k][1]
                  /\ resp[w].body[k][1] < resp[w].body[k][2]
                  /\ resp[w].body[k][2] < Len(embeddings[w])

C2_Witness ==
    \E w \in Workers :
        /\ pc[w] = "inner"
        /\ Len(similarities[w]) = 2
        /\ j[w] < Len(embeddings[w])

\* C3: the returned triples are in strictly ascending lexicographic order
\* of (i, j).
C3_LexOrder ==
    \A w \in Workers :
        Returned(w) =>
            \A k \in 1..(Len(resp[w].body) - 1) :
                LET t1 == resp[w].body[k]
                    t2 == resp[w].body[k + 1]
                IN \/ t1[1] < t2[1]
                   \/ t1[1] = t2[1] /\ t1[2] < t2[2]

C3_Witness ==
    \E w \in Workers :
        /\ Returned(w)
        /\ Len(resp[w].body) = 3
        /\ resp[w].body[2][1] # resp[w].body[3][1]

\* C4: a find_similar_records request for a user_id that is no stored user
\* is answered not-found.
C4_UnknownUserNotFound ==
    \A w \in Workers :
        (FindServed(w) /\ user_id[w] \notin db_users) => resp[w].status = 404

\* C5: find_similar_records(u) loads and compares only records owned by u:
\* the loaded records are the records of u in stored order, every triple
\* indexes two of them and carries their similarity, and the pairs returned
\* are exactly the pairs of u's records, whatever other users own.
C5_OwnRecordsOnly ==
    \A w \in Workers :
        (op[w] = "find" /\ pc[w] \notin {"idle", "query"}) =>
            LET owned == QueryRecords(user_id[w])
            IN /\ \A k \in 1..Len(records[w]) :
                     records[w][k].user_id = user_id[w]
               /\ IsPrefix(records[w], owned)
               /\ \A k \in 1..Len(similarities[w]) :
                     LET t == similarities[w][k]
                     IN /\ t[1] < Len(owned)
                        /\ t[2] < Len(owned)
                        /\ t[3] \in cosine_similarity(owned[t[1] + 1].embedding,
                                                      owned[t[2] + 1].embedding)
               /\ Returned(w) =>
                     /\ resp[w].body = similarities[w]
                     /\ Len(resp[w].body) = PairCount(Len(records[w]))

C5_Witness ==
    \E w \in Workers :
        /\ Returned(w)
        /\ Len(resp[w].body) = 1
        /\ Len(db_records) = 3
        /\ db_records[2].user_id # user_id[w]

\* C6: when a similarity computation fails the request ends in an error
\* and carries no similarity list; a list is returned only when all
\* N*(N-1)/2 computations succeeded.
C6_NoPartialResult ==
    \A w \in Workers :
        FindServed(w) =>
            /\ cosCalls[w] > Len(similarities[w]) =>
                  /\ resp[w].status = 500
                  /\ resp[w].body \in {"DimensionMismatchError",
                                       "InvalidVectorError"}
            /\ resp[w].status = 200 =>
                  /\ cosCalls[w] = PairCount(Len(embeddings[w]))
                  /\ Len(similarities[w]) = cosCalls[w]
                  /\ resp[w].body = similarities[w]

C6_Witness ==
    \E w \in Workers :
        /\ FindServed(w)
        /\ resp[w].status = 500
        /\ resp[w].body = "DimensionMismatchError"
        /\ Len(similarities[w]) >= 1

\* A step taken by worker w.
Moved(w) == <<pc[w], i[w], j[w]>>' # <<pc[w], i[w], j[w]>>

\* C7: no step of a find_similar_records request, returning or failing,
\* changes the stored users or records.
C7_FindLeavesStoreUnchanged ==
    [][\A w \in Workers :
          (op[w] = "find" /\ pc[w] \notin {"idle", "done"} /\ Moved(w))
              => UNCHANGED db]_vars

C7_Witness ==
    \E w \in Workers :
        /\ Returned(w)
        /\ Len(resp[w].body) >= 1
        /\ Len(db_records) = 2
        /\ Cardinality(db_users) = 1

\* C8: in every find_similar_records request the request's own new
\* TextSearch instance has had update_corpus(records) and train_model
\* completed before the first cosine_similarity call and before the loop,
\* also when no call is made; the instance starts unprepared and is shared
\* with no other request.
C8_PreparedBeforeSimilarity ==
    \A w \in Workers :
        op[w] = "find" =>
            /\ (cosCalls[w] > 0
                 \/ pc[w] \in {"outer", "inner", "return", "finally", "done"})
                  => /\ search_model[w].id # 0
                     /\ search_model[w].trained
                     /\ search_model[w].corpus = records[w]
            /\ pc[w] = "update_corpus" =>
                  /\ search_model[w].id # 0
                  /\ search_model[w].corpus = << >>
                  /\ ~search_model[w].trained
            /\ pc[w] = "train_model" => ~search_model[w].trained
            /\ \A v \in Workers \ {w} :
                  search_model[w].id # 0 => search_model[v].id # search_model[w].id

C8_Witness ==
    \E w \in Workers :
        /\ op[w] = "find"
        /\ pc[w] = "inner"
        /\ cosCalls[w] = 1
        /\ search_model[w].trained

\* C9: create_record for a user_id that is no stored user answers 404
\* 'User not found' and leaves users and records unchanged; every stored
\* record's owner is a stored user.
C9_RecordOwnerExists ==
    /\ [](\A k \in 1..Len(db_records) : db_records[k].user_id \in db_users)
    /\ [][\A w \in Workers :
            (pc[w] = "create_record" /\ pc'[w] # "create_record"
                /\ record[w].user_id \notin db_users)
              => /\ UNCHANGED db
                 /\ resp'[w].status = 404
                 /\ resp'[w].body = "User not found"]_vars

C9_Witness ==
    \E w \in Workers :
        /\ op[w] = "create_record"
        /\ pc[w] = "done"
        /\ resp[w].status = 404
        /\ Len(db_records) >= 1

\* C10: the session a request obtained from get_db is open while the
\* handler runs and has been closed exactly once when the request has
\* finished, whether the handler returned or raised.
C10_SessionClosedOnce ==
    \A w \in Workers :
        /\ pc[w] = "idle" => session[w] = "none"
        /\ pc[w] \notin {"idle", "done"} => session[w] = "open" /\ closes[w] = 0
        /\ pc[w] = "done" => session[w] = "closed" /\ closes[w] = 1

C10_Witness ==
    \E w \in Workers :
        /\ pc[w] = "done"
        /\ resp[w].status \in {404, 500}
        /\ session[w] = "closed"
        /\ closes[w] = 1

====
